---- MODULE Spec2Model ----
(***************************************************************************)
(* The skeletal pose model (app/src/model/skeleton.rs) and the timing      *)
(* state of the DCM fusion engine (firmware/src/imu/fusion/dcm.rs).        *)
(*                                                                         *)
(* Three specifications over one set of variables:                        *)
(*   Spec       a Skeleton made by Skeleton::new and the calls on it      *)
(*   BuildSpec  SkeletonBuilder::build, one Bone::new per step            *)
(*   DcmSpec    Dcm::new followed by Dcm::process calls under a clock     *)
(*                                                                         *)
(* Lengths and radii are in millimetres (0.1 is 100, 0.01 is 10).         *)
(* Bone, BoneMap and the overlay backend are not part of the two source   *)
(* files; they are modelled from their description (sections 4.2, 4.3, 6).*)
(***************************************************************************)
EXTENDS Integers, Sequences, FiniteSets

VARIABLES
    skeleton,   \* Skeleton { bones, is_visible }, or NoSkeleton
    mngr,       \* the overlay backend: allocated primitives, what was pushed
    trace,      \* ghost: the last call made and the counts of calls
    latest,     \* ghost: per bone, the transform and length most recently set
                \* and the number of sets since the last accepted push
    builder,    \* SkeletonBuilder { colors, key, bone_radius, bone_lengths }
    build,      \* the position of SkeletonBuilder::build
    dcm,        \* Dcm { last } and the ghost record of its calls
    clock       \* the monotonic clock read by Instant::now()

vars == <<skeleton, mngr, trace, latest, builder, build, dcm, clock>>

----------------------------------------------------------------------------
(* Bounds *)

\* Calls made on one Skeleton.
MaxCalls == 3
\* The joint kinds (first MaxKind in iteration order) that calls and
\* configuration overrides name.
MaxKind == 2
\* Transforms are 0..MaxIso; 0 is Isometry::default().
MaxIso == 2
\* Lengths other than the default that a caller sets.
MaxLen == 1
\* Dcm::process calls and clock advances in one run.
MaxSamples == 4
MaxTicks == 4
\* The longest single clock advance, in ticks.
MaxStall == 3
\* A stall long enough that its tick count does not fit an f32 exactly.
LongStall == 16777217

----------------------------------------------------------------------------
(* Joint kinds and the default tables *)

NUM_TYPES == 17

KindOrder ==
    << "Head", "Neck", "Chest", "Waist", "Hip", "ThighL", "ThighR",
       "AnkleL", "AnkleR", "FootL", "FootR", "UpperArmL", "UpperArmR",
       "ForearmL", "ForearmR", "WristL", "WristR" >>

BoneKind == {KindOrder[i] : i \in 1..NUM_TYPES}

Ord(kind) == CHOOSE i \in 1..NUM_TYPES : KindOrder[i] = kind

DEFAULT_COLORS ==
    [kind \in BoneKind |->
        CASE kind = "Head" -> "SILVER"
          [] kind = "Neck" -> "GRAY"
          [] kind = "Chest" -> "OLIVE"
          [] kind = "Waist" -> "LIME"
          [] kind = "Hip" -> "GREEN"
          [] kind \in {"ThighL", "ThighR"} -> "AQUA"
          [] kind \in {"AnkleL", "AnkleR"} -> "TEAL"
          [] kind \in {"FootL", "FootR"} -> "BLUE"
          [] kind \in {"UpperArmL", "UpperArmR"} -> "RED"
          [] kind \in {"ForearmL", "ForearmR"} -> "PURPLE"
          [] kind \in {"WristL", "WristR"} -> "FUCHSIA"]

BONE_RADIUS == 10

DEFAULT_LENGTH == 100

DEFAULT_KEY == "slimevr"

\* The kinds that the enumerated calls and overrides name.
NamedKinds == {KindOrder[i] : i \in 1..MaxKind}

Isometries == 0..MaxIso

Lengths == {DEFAULT_LENGTH + 50 * i : i \in 0..MaxLen}

----------------------------------------------------------------------------
(* The overlay backend (section 6: allocate, push) *)

NoPush == [pushed |-> FALSE]

\* pushes counts the push attempts made, accepted those the backend took.
EmptyManager == [prims |-> <<>>, rendered |-> <<>>, pushes |-> 0, accepted |-> 0]

\* allocate(color, initial_transform, label, radius, length) -> Handle:
\* the handle is the primitive's index.
Allocate(m, color, iso, label, radius, length) ==
    [m EXCEPT !.prims = Append(@, [color |-> color, iso |-> iso, label |-> label,
                                   radius |-> radius, length |-> length]),
              !.rendered = Append(@, NoPush)]

\* push(handle, transform, length, visibility): one attempt, which the
\* backend accepts or rejects; a rejected push leaves the primitive alone.
Push(m, handle, iso, length, visible, accept) ==
    [m EXCEPT !.pushes = @ + 1,
              !.accepted = IF accept THEN @ + 1 ELSE @,
              !.rendered[handle] =
                  IF accept
                  THEN [pushed |-> TRUE, iso |-> iso, length |-> length,
                        visible |-> visible]
                  ELSE @]

----------------------------------------------------------------------------
(* Bone (section 4.2) *)

\* Bone::new: allocates one primitive and wraps its handle, or fails with
\* the backend's error when the backend refuses (accept = FALSE).  The new
\* Bone's visibility flag is the bone-level default, `visible`.
Bone_new(m, color, iso, label, radius, length, visible, accept) ==
    IF accept
    THEN LET m2 == Allocate(m, color, iso, label, radius, length)
         IN  [ok |-> TRUE, mngr |-> m2,
              bone |-> [iso |-> iso, length |-> length, is_visible |-> visible,
                        handle |-> Len(m2.prims)]]
    ELSE [ok |-> FALSE, mngr |-> m]

Bone_set_isometry(bone, iso) == [bone EXCEPT !.iso = iso]

Bone_set_length(bone, len) == [bone EXCEPT !.length = len]

Bone_set_visibility(bone, is_visible) == [bone EXCEPT !.is_visible = is_visible]

\* Bone::update_render: one push of the stored transform, length and
\* visibility to the bone's handle; Ok exactly when the backend accepts.
Bone_update_render(bone, m, accept) ==
    [mngr |-> Push(m, bone.handle, bone.iso, bone.length, bone.is_visible, accept),
     ok |-> accept]

----------------------------------------------------------------------------
(* Skeleton (skeleton.rs 99-144) *)

\* Each operation returns the Skeleton after the call (self), and what the
\* call did besides: bone_calls counts the Bone::set_visibility calls issued.

\* Variant: the early return on an equal flag is missing.
set_visibility_always(self, is_visible) ==
    [self |-> [bones |-> [kind \in BoneKind |->
                             Bone_set_visibility(self.bones[kind], is_visible)],
               is_visible |-> is_visible],
     bone_calls |-> Cardinality(BoneKind)]

set_visibility(self, is_visible) ==
    IF self.is_visible = is_visible
    THEN [self |-> self, bone_calls |-> 0]
    ELSE [self |-> [bones |-> [kind \in BoneKind |->
                                  Bone_set_visibility(self.bones[kind], is_visible)],
                    is_visible |-> is_visible],
          bone_calls |-> Cardinality(BoneKind)]

new(bones) ==
    set_visibility([bones |-> bones, is_visible |-> FALSE], FALSE).self

set_isometry(self, bone, iso) ==
    [self EXCEPT !.bones[bone] = Bone_set_isometry(@, iso)]

\* Variant: setting the length also resets the transform.
set_length_resets(self, bone, len) ==
    [self EXCEPT !.bones[bone] = Bone_set_isometry(Bone_set_length(@, len), 0)]

set_length(self, bone, len) ==
    [self EXCEPT !.bones[bone] = Bone_set_length(@, len)]

\* Variant: the error of a rejected push is dropped.
update_render_swallows(self, bone, m, accept) ==
    LET r == Bone_update_render(self.bones[bone], m, accept)
    IN  [self |-> self, mngr |-> r.mngr, ok |-> TRUE]

\* Variant: a rejected push is tried a second time.
update_render_retries(self, bone, m, accept) ==
    LET r == Bone_update_render(self.bones[bone], m, accept)
        again == Bone_update_render(self.bones[bone], r.mngr, accept)
    IN  IF r.ok THEN [self |-> self, mngr |-> r.mngr, ok |-> TRUE]
        ELSE [self |-> self, mngr |-> again.mngr, ok |-> again.ok]

update_render(self, bone, m, accept) ==
    LET r == Bone_update_render(self.bones[bone], m, accept)
    IN  [self |-> self, mngr |-> r.mngr, ok |-> r.ok]

visibility(self) == self.is_visible

----------------------------------------------------------------------------
(* SkeletonBuilder (skeleton.rs 48-97) *)

None == [some |-> FALSE]

Some(v) == [some |-> TRUE, val |-> v]

DefaultBuilder ==
    [colors |-> None, key |-> DEFAULT_KEY, bone_radius |-> BONE_RADIUS,
     bone_lengths |-> None]

\* Variant: the configured overrides are ignored.
ResolvedColors_table(self) == DEFAULT_COLORS

\* skeleton.rs 57-66: the override where one is configured, else the table.
ResolvedColors(self) ==
    LET colors == IF self.colors.some THEN self.colors.val
                  ELSE [kind \in BoneKind |-> None]
    IN  [kind \in BoneKind |->
            IF colors[kind].some THEN colors[kind].val ELSE DEFAULT_COLORS[kind]]

\* skeleton.rs 68-70
ResolvedLengths(self) ==
    IF self.bone_lengths.some THEN self.bone_lengths.val
    ELSE [kind \in BoneKind |-> DEFAULT_LENGTH]

\* format!("{}: {kind:?}", self.key)
Label(key, kind) == <<key, kind>>

\* Variant: a failed Bone::new is recorded and the loop goes on.
build_step_continues(self, b, m, accept) ==
    LET kind == KindOrder[b.next]
        r == Bone_new(m, ResolvedColors(self)[kind], 0, Label(self.key, kind),
                      self.bone_radius, ResolvedLengths(self)[kind],
                      b.bone_visible, accept)
    IN  [build |-> [b EXCEPT !.next = @ + 1,
                             !.attempts = @ + 1,
                             !.bones = IF r.ok THEN Append(@, <<kind, r.bone>>) ELSE @,
                             !.error = IF r.ok \/ @.some THEN @
                                       ELSE Some(kind)],
         mngr |-> r.mngr]

\* skeleton.rs 73-83: one turn of the loop, for the kind at position b.next
\* of the iteration; `?` returns the error of a failed Bone::new at once.
build_step(self, b, m, accept) ==
    LET kind == KindOrder[b.next]
        r == Bone_new(m, ResolvedColors(self)[kind], 0, Label(self.key, kind),
                      self.bone_radius, ResolvedLengths(self)[kind],
                      b.bone_visible, accept)
    IN  IF r.ok
        THEN [build |-> [b EXCEPT !.next = @ + 1,
                                  !.attempts = @ + 1,
                                  !.bones = Append(@, <<kind, r.bone>>)],
              mngr |-> r.mngr]
        ELSE [build |-> [b EXCEPT !.pc = "failed", !.attempts = @ + 1,
                                  !.error = Some(kind)],
              mngr |-> r.mngr]

\* BoneMap's TryCollect: the pairs must cover every kind exactly once.
Covers(pairs) ==
    /\ Len(pairs) = NUM_TYPES
    /\ \A kind \in BoneKind : \E i \in 1..Len(pairs) : pairs[i][1] = kind

try_collect(pairs) ==
    [kind \in BoneKind |->
        pairs[CHOOSE i \in 1..Len(pairs) : pairs[i][1] = kind][2]]

\* skeleton.rs 84-85
build_finish(b) == new(try_collect(b.bones))

----------------------------------------------------------------------------
(* Dcm (dcm.rs) *)

\* Instant - Instant is a Duration in ticks; it panics when the result
\* would be negative.
Instant_sub(a, b) ==
    IF a >= b THEN [ok |-> TRUE, ticks |-> a - b] ELSE [ok |-> FALSE]

RECURSIVE Pow2Above(_, _)
\* the least p = start * 2^i with ticks < p * 2^24
Pow2Above(ticks, p) == IF ticks < p * 16777216 THEN p ELSE Pow2Above(ticks, 2 * p)

\* Duration::as_secs_f32, at tick granularity: a tick count of more than
\* 24 significant bits is rounded to the nearest f32 (ties to even).
as_secs_f32(ticks) ==
    LET ulp == Pow2Above(ticks, 1)
        q == ticks \div ulp
        r == ticks % ulp
    IN  IF 2 * r < ulp \/ (2 * r = ulp /\ q % 2 = 0)
        THEN q * ulp ELSE (q + 1) * ulp

Dcm_new(now) == [last |-> now]

\* Variant: the reading is not stored as the new last-seen timestamp.
process_stale(self, now) ==
    [self |-> self, reads |-> 1, ok |-> now >= self.last,
     elapsed |-> IF now >= self.last THEN now - self.last ELSE 0,
     secs |-> IF now >= self.last THEN now - self.last ELSE 0]

\* dcm.rs 23-27: what the call stores and what it integrates with; `now`
\* is the one reading of Instant::now() the call takes.
process(self, now) ==
    LET last == self.last
        elapsed == Instant_sub(now, last)
    IN  [self |-> [last |-> now],
         reads |-> 1,
         ok |-> elapsed.ok,
         elapsed |-> IF elapsed.ok THEN elapsed.ticks ELSE 0,
         secs |-> IF elapsed.ok THEN as_secs_f32(elapsed.ticks) ELSE 0]

----------------------------------------------------------------------------
(* States *)

NoSkeleton == [bones |-> <<>>, is_visible |-> FALSE]

NoCall == [op |-> "none", kind |-> "none", arg |-> 0, ok |-> TRUE]

TraceInit ==
    [last |-> NoCall, prev |-> NoCall, calls |-> 0, update_calls |-> 0,
     bone_calls |-> 0]

\* The ghost record of a call just made.
Called(op, kind, arg, ok, updates, bone_calls) ==
    [last |-> [op |-> op, kind |-> kind, arg |-> arg, ok |-> ok],
     prev |-> trace.last,
     calls |-> trace.calls + 1,
     update_calls |-> trace.update_calls + updates,
     bone_calls |-> trace.bone_calls + bone_calls]

BuildIdle == [pc |-> "idle", next |-> 1, attempts |-> 0, bones |-> <<>>,
              error |-> None, bone_visible |-> FALSE]

DcmIdle == [self |-> [last |-> 0], created |-> 0, samples |-> 0, ticks |-> 0,
            reads |-> 0, read_at |-> 0, elapsed |-> 0, secs |-> 0, sum |-> 0,
            prev_last |-> 0, panicked |-> FALSE]

RECURSIVE AllocatedDefaults(_)
\* The backend after Bone::new has succeeded for the first n kinds of a
\* default SkeletonBuilder.
AllocatedDefaults(n) ==
    IF n = 0 THEN EmptyManager
    ELSE Allocate(AllocatedDefaults(n - 1), DEFAULT_COLORS[KindOrder[n]], 0,
                  Label(DEFAULT_KEY, KindOrder[n]), BONE_RADIUS, DEFAULT_LENGTH)

\* The arenas handed to Skeleton::new: one Bone per kind, each with the
\* handle of its own primitive; the named bones carry one visibility flag
\* and the other bones another, so an arena is all visible, all invisible,
\* or mixed.
InputArenas ==
    {[kind \in BoneKind |->
        [iso |-> 0, length |-> DEFAULT_LENGTH,
         is_visible |-> IF kind \in NamedKinds THEN named ELSE rest,
         handle |-> Ord(kind)]] :
     named \in BOOLEAN, rest \in BOOLEAN}

\* The builders handed to build: overrides only for the named kinds.
ColorConfigs ==
    {None} \cup
    {Some([kind \in BoneKind |->
              IF kind \in NamedKinds /\ over[kind] THEN Some("WHITE") ELSE None]) :
     over \in [NamedKinds -> BOOLEAN]}

LengthConfigs ==
    {None} \cup
    {Some([kind \in BoneKind |->
              IF kind \in NamedKinds THEN len[kind] ELSE DEFAULT_LENGTH + 50]) :
     len \in [NamedKinds -> Lengths]}

----------------------------------------------------------------------------
(* Spec: a Skeleton and the calls on it *)

Init ==
    /\ \E bones \in InputArenas :
          /\ skeleton = new(bones)
          /\ latest = [kind \in BoneKind |->
                          [iso |-> bones[kind].iso, length |-> bones[kind].length,
                           pending |-> 0]]
    /\ mngr = AllocatedDefaults(NUM_TYPES)
    /\ trace = TraceInit
    /\ builder = DefaultBuilder
    /\ build = BuildIdle
    /\ dcm = DcmIdle
    /\ clock = 0

Idle == UNCHANGED <<builder, build, dcm, clock>>

SetIsometry(kind, iso) ==
    /\ trace.calls < MaxCalls
    /\ skeleton' = set_isometry(skeleton, kind, iso)
    /\ latest' = [latest EXCEPT ![kind].iso = iso, ![kind].pending = @ + 1]
    /\ trace' = Called("set_isometry", kind, iso, TRUE, 0, 0)
    /\ UNCHANGED mngr
    /\ Idle

SetLength(kind, len) ==
    /\ trace.calls < MaxCalls
    /\ skeleton' = set_length(skeleton, kind, len)
    /\ latest' = [latest EXCEPT ![kind].length = len, ![kind].pending = @ + 1]
    /\ trace' = Called("set_length", kind, len, TRUE, 0, 0)
    /\ UNCHANGED mngr
    /\ Idle

UpdateRender(kind, accept) ==
    /\ trace.calls < MaxCalls
    /\ LET r == update_render(skeleton, kind, mngr, accept)
       IN  /\ skeleton' = r.self
           /\ mngr' = r.mngr
           /\ trace' = Called("update_render", kind, latest[kind].pending, r.ok, 1, 0)
           /\ latest' = [latest EXCEPT ![kind].pending = IF r.ok THEN 0 ELSE @]
    /\ Idle

Visibility ==
    /\ trace.calls < MaxCalls
    /\ trace' = Called("visibility", "none", 0, visibility(skeleton), 0, 0)
    /\ UNCHANGED <<skeleton, mngr, latest>>
    /\ Idle

SetVisibility(is_visible) ==
    /\ trace.calls < MaxCalls
    /\ LET r == set_visibility(skeleton, is_visible)
       IN  /\ skeleton' = r.self
           /\ trace' = Called("set_visibility", "none",
                              IF is_visible THEN 1 ELSE 0, TRUE, 0, r.bone_calls)
    /\ UNCHANGED <<mngr, latest>>
    /\ Idle

Next ==
    \/ \E kind \in NamedKinds, iso \in Isometries : SetIsometry(kind, iso)
    \/ \E kind \in NamedKinds, len \in Lengths : SetLength(kind, len)
    \/ \E kind \in NamedKinds, accept \in BOOLEAN : UpdateRender(kind, accept)
    \/ Visibility
    \/ \E is_visible \in BOOLEAN : SetVisibility(is_visible)

Spec == Init /\ [][Next]_vars

----------------------------------------------------------------------------
(* BuildSpec: SkeletonBuilder::build *)

BuildInit ==
    /\ builder \in {[DefaultBuilder EXCEPT !.colors = c, !.bone_lengths = l] :
                       c \in ColorConfigs, l \in LengthConfigs}
    /\ build \in {[BuildIdle EXCEPT !.pc = "loop", !.bone_visible = v] :
                     v \in BOOLEAN}
    /\ skeleton = NoSkeleton
    /\ mngr = EmptyManager
    /\ trace = TraceInit
    /\ latest = <<>>
    /\ dcm = DcmIdle
    /\ clock = 0

BuildBone(accept) ==
    /\ build.pc = "loop"
    /\ build.next <= NUM_TYPES
    /\ LET r == build_step(builder, build, mngr, accept)
       IN  /\ build' = r.build
           /\ mngr' = r.mngr
    /\ UNCHANGED <<skeleton, trace, latest, builder, dcm, clock>>

BuildFinish ==
    /\ build.pc = "loop"
    /\ build.next > NUM_TYPES
    /\ Covers(build.bones)
    /\ skeleton' = build_finish(build)
    /\ build' = [build EXCEPT !.pc = "ok"]
    /\ UNCHANGED <<mngr, trace, latest, builder, dcm, clock>>

BuildNext ==
    \/ \E accept \in BOOLEAN : BuildBone(accept)
    \/ BuildFinish

BuildSpec == BuildInit /\ [][BuildNext]_vars

----------------------------------------------------------------------------
(* DcmSpec: Dcm::new, then Dcm::process under a clock that only advances *)

DcmInit ==
    /\ clock \in 0..MaxStall
    /\ dcm = [DcmIdle EXCEPT !.self = Dcm_new(clock), !.created = clock,
                             !.prev_last = clock, !.reads = 1,
                             !.read_at = clock]
    /\ skeleton = NoSkeleton
    /\ mngr = EmptyManager
    /\ trace = TraceInit
    /\ latest = <<>>
    /\ builder = DefaultBuilder
    /\ build = BuildIdle

Tick(d) ==
    /\ dcm.ticks < MaxTicks
    /\ ~dcm.panicked
    /\ clock' = clock + d
    /\ dcm' = [dcm EXCEPT !.ticks = @ + 1]
    /\ UNCHANGED <<skeleton, mngr, trace, latest, builder, build>>

Process ==
    /\ dcm.samples < MaxSamples
    /\ ~dcm.panicked
    /\ LET r == process(dcm.self, clock)
       IN  dcm' = [dcm EXCEPT !.self = IF r.ok THEN r.self ELSE @,
                              !.prev_last = dcm.self.last,
                              !.samples = @ + 1,
                              !.reads = @ + r.reads,
                              !.read_at = clock,
                              !.elapsed = r.elapsed,
                              !.secs = r.secs,
                              !.sum = @ + r.elapsed,
                              !.panicked = ~r.ok]
    /\ UNCHANGED <<skeleton, mngr, trace, latest, builder, build, clock>>

DcmNext ==
    \/ \E d \in (1..MaxStall) \cup {LongStall} : Tick(d)
    \/ Process

DcmSpec == DcmInit /\ [][DcmNext]_vars

----------------------------------------------------------------------------
(* Claims *)

\* A step that is the call `op`.
IsCall(op) == trace'.calls = trace.calls + 1 /\ trace'.last.op = op

AllBonesAre(flag) ==
    \A kind \in BoneKind : skeleton.bones[kind].is_visible = flag

\* C1 (as claimed): after every set_visibility call on a Skeleton made by
\* Skeleton::new, the flag visibility() returns equals the visibility flag
\* of every owned Bone.
C1_VisibilityAtomicity ==
    trace.last.op = "set_visibility" => AllBonesAre(visibility(skeleton))

\* C2 (as claimed): immediately after Skeleton::new(bones), visibility() is
\* false and every owned Bone's visibility flag is false, whatever flags
\* the bones carried when passed in.
C2_InitialInvisibility ==
    trace.calls = 0 => ~visibility(skeleton) /\ AllBonesAre(FALSE)

\* C3: set_visibility(v) leaves the aggregate flag at v; when v equals the
\* current aggregate flag the Skeleton and the backend are unchanged and no
\* Bone::set_visibility is issued, and otherwise exactly one is issued per
\* bone.  Two equal calls in a row therefore issue one update per bone and
\* end in the state one call ends in.
C3_SetVisibilityIdempotent ==
    [][IsCall("set_visibility") =>
          LET v == (trace'.last.arg = 1)
          IN  /\ visibility(skeleton') = v
              /\ v = visibility(skeleton) =>
                    /\ skeleton' = skeleton
                    /\ mngr' = mngr
                    /\ trace'.bone_calls = trace.bone_calls
              /\ v # visibility(skeleton) =>
                    trace'.bone_calls = trace.bone_calls + NUM_TYPES]_vars

\* set_visibility(true) was called twice in a row on a new Skeleton, and
\* one update per bone was issued in all.
C3_Witness ==
    /\ trace.calls = 2
    /\ trace.prev.op = "set_visibility" /\ trace.prev.arg = 1
    /\ trace.last.op = "set_visibility" /\ trace.last.arg = 1
    /\ trace.bone_calls = NUM_TYPES
    /\ visibility(skeleton)

\* Everything of the Skeleton but one attribute of bone `kind` is the same
\* after the step.
OthersUnchanged(kind) ==
    /\ skeleton'.is_visible = skeleton.is_visible
    /\ \A other \in BoneKind \ {kind} : skeleton'.bones[other] = skeleton.bones[other]
    /\ skeleton'.bones[kind].is_visible = skeleton.bones[kind].is_visible
    /\ skeleton'.bones[kind].handle = skeleton.bones[kind].handle

\* C4: set_isometry(k, t) changes only the stored transform of bone k, and
\* set_length(k, l) only the stored length of bone k: the other attribute
\* of bone k, its visibility flag and handle, every other bone and the
\* aggregate flag are unchanged.
C4_PoseLengthFrame ==
    [][/\ IsCall("set_isometry") =>
              /\ OthersUnchanged(trace'.last.kind)
              /\ skeleton'.bones[trace'.last.kind].iso = trace'.last.arg
              /\ skeleton'.bones[trace'.last.kind].length =
                     skeleton.bones[trace'.last.kind].length
       /\ IsCall("set_length") =>
              /\ OthersUnchanged(trace'.last.kind)
              /\ skeleton'.bones[trace'.last.kind].length = trace'.last.arg
              /\ skeleton'.bones[trace'.last.kind].iso =
                     skeleton.bones[trace'.last.kind].iso]_vars

\* A length was set on a bone right after a transform was, and the bone
\* holds both.
C4_Witness ==
    /\ trace.prev.op = "set_isometry" /\ trace.prev.arg # 0
    /\ trace.last.op = "set_length" /\ trace.last.arg # DEFAULT_LENGTH
    /\ trace.last.kind = trace.prev.kind
    /\ skeleton.bones[trace.last.kind].iso = trace.prev.arg
    /\ skeleton.bones[trace.last.kind].length = trace.last.arg

\* C7: update_render(k, backend) makes exactly one push attempt, on bone
\* k's handle only; it returns Ok exactly when the backend accepts that
\* push, and whether accepted or rejected it leaves every bone's stored
\* state and the aggregate flag unchanged.
C7_UpdateRenderPropagates ==
    [][IsCall("update_render") =>
          LET handle == skeleton.bones[trace'.last.kind].handle
          IN  /\ mngr'.pushes = mngr.pushes + 1
              /\ trace'.last.ok <=> (mngr'.accepted = mngr.accepted + 1)
              /\ ~trace'.last.ok => mngr'.accepted = mngr.accepted
              /\ \A h \in 1..Len(mngr.rendered) :
                    h # handle => mngr'.rendered[h] = mngr.rendered[h]
              /\ mngr'.prims = mngr.prims
              /\ skeleton' = skeleton]_vars

\* An update_render call was rejected once and returned the error, after
\* the bone had been given a transform.
C7_Witness ==
    /\ trace.last.op = "update_render" /\ ~trace.last.ok
    /\ mngr.pushes = 1 /\ mngr.accepted = 0
    /\ skeleton.bones[trace.last.kind].iso # 0

\* C8: on a built Skeleton no call allocates a primitive or changes a
\* bone's handle; set_isometry, set_length, set_visibility and visibility
\* leave the backend untouched; and the pushes made are as many as the
\* update_render calls made.
C8_BackendConfined ==
    /\ [](mngr.pushes = trace.update_calls)
    /\ [][/\ mngr'.prims = mngr.prims
          /\ \A kind \in BoneKind :
                skeleton'.bones[kind].handle = skeleton.bones[kind].handle
          /\ (\E op \in {"set_isometry", "set_length", "set_visibility",
                         "visibility"} : IsCall(op)) => mngr' = mngr]_vars

\* Two update_render calls, one of them rejected, and then another call.
C8_Witness ==
    /\ trace.update_calls = 2 /\ mngr.pushes = 2 /\ mngr.accepted = 1
    /\ trace.last.op = "set_visibility"
    /\ Len(mngr.prims) = NUM_TYPES

\* What the last call, an accepted update_render(k), left on k's handle.
Delivered == mngr.rendered[skeleton.bones[trace.last.kind].handle]

\* C9 (as claimed): the push that a successful update_render(k) delivers to
\* bone k's handle carries the transform and the length most recently set
\* for k and the current visibility flag, the one visibility() returns, so
\* a value overwritten before the push is not delivered.
C9_PushCarriesLatest ==
    (trace.last.op = "update_render" /\ trace.last.ok) =>
        Delivered = [pushed |-> TRUE,
                     iso |-> latest[trace.last.kind].iso,
                     length |-> latest[trace.last.kind].length,
                     visible |-> visibility(skeleton)]

\* C9, the part that holds: the push carries the transform and the length
\* most recently set for k, and bone k's own visibility flag.
C9_PushCarriesBoneState ==
    (trace.last.op = "update_render" /\ trace.last.ok) =>
        Delivered = [pushed |-> TRUE,
                     iso |-> latest[trace.last.kind].iso,
                     length |-> latest[trace.last.kind].length,
                     visible |-> skeleton.bones[trace.last.kind].is_visible]

\* One accepted push delivered the state left by two or more sets.
C9_Coalesced ==
    /\ trace.last.op = "update_render" /\ trace.last.ok
    /\ trace.last.arg >= 2
    /\ mngr.pushes = 1
    /\ Delivered.iso # 0

\* The color and the length build resolves for a kind.
EffectiveColor(kind) ==
    IF builder.colors.some /\ builder.colors.val[kind].some
    THEN builder.colors.val[kind].val
    ELSE DEFAULT_COLORS[kind]

EffectiveLength(kind) ==
    IF builder.bone_lengths.some THEN builder.bone_lengths.val[kind]
    ELSE DEFAULT_LENGTH

\* C5: when every allocation succeeds, build makes exactly one allocation
\* per joint kind, 17 in all, and returns a Skeleton that maps every kind to
\* the Bone of its own primitive, created with the override color if one is
\* configured and the table color otherwise, and with the configured length
\* if a length map is configured and the default length otherwise.
C5_BuildTotal ==
    build.pc = "ok" =>
        /\ build.attempts = NUM_TYPES
        /\ Len(mngr.prims) = NUM_TYPES
        /\ DOMAIN skeleton.bones = BoneKind
        /\ \A kind \in BoneKind :
              LET handle == skeleton.bones[kind].handle
              IN  /\ handle \in 1..Len(mngr.prims)
                  /\ mngr.prims[handle].label = Label(builder.key, kind)
                  /\ mngr.prims[handle].color = EffectiveColor(kind)
                  /\ mngr.prims[handle].length = EffectiveLength(kind)
                  /\ skeleton.bones[kind].length = EffectiveLength(kind)
        /\ \A k1, k2 \in BoneKind :
              k1 # k2 => skeleton.bones[k1].handle # skeleton.bones[k2].handle

\* A build succeeded with an override color for one kind, the table color
\* for another, and a configured length map.
C5_Witness ==
    /\ build.pc = "ok"
    /\ builder.colors.some
    /\ builder.colors.val[KindOrder[1]].some
    /\ ~builder.colors.val[KindOrder[2]].some
    /\ builder.bone_lengths.some
    /\ mngr.prims[skeleton.bones[KindOrder[1]].handle].color = "WHITE"
    /\ mngr.prims[skeleton.bones[KindOrder[2]].handle].color = "GRAY"

\* C6: when the backend refuses the allocation for the i-th kind, build
\* stops with that error: no Skeleton is made, i allocations have been
\* attempted and none is attempted later, and the i-1 primitives already
\* allocated, those of the first i-1 kinds, stay in the backend.
C6_BuildFailFast ==
    build.error.some =>
        LET i == Ord(build.error.val)
        IN  /\ build.pc = "failed"
            /\ skeleton = NoSkeleton
            /\ build.attempts = i
            /\ Len(mngr.prims) = i - 1
            /\ \A j \in 1..(i - 1) :
                  mngr.prims[j].label = Label(builder.key, KindOrder[j])
            /\ ~ENABLED BuildNext

\* A build failed at its third kind or later.
C6_Witness ==
    /\ build.pc = "failed"
    /\ build.error.some
    /\ Len(mngr.prims) >= 2

====
